---- MODULE Spec2Model ----
(***************************************************************************)
(* benchkit communication layers: the serial (UART) transport of           *)
(* benchkit/communication/uart.py and the pseudo-terminal transport of     *)
(* benchkit/communication/pty.py; the background-tool contexts of          *)
(* benchkit/commandwrappers/stressng.py and                                *)
(* benchkit/helpers/linux/sched_ext.py; the file-system, kernel            *)
(* configuration and QEMU helpers of benchkit/helpers and                  *)
(* benchkit/platforms/qemu.py.                                             *)
(*                                                                         *)
(* Text is a sequence of Unicode code points, a byte string a sequence of  *)
(* numbers 0..255.  An optional value (Python None or a value v) is the    *)
(* empty sequence or the one-element sequence <<v>>.                       *)
(***************************************************************************)
EXTENDS Integers, Sequences, FiniteSets, TLC

VARIABLES
    constructed,  \* UART: UARTCommLayer.__init__ has returned normally
    is_open,      \* UART: self._con.is_open
    ps1,          \* UART: self._ps1, optional text
    last,         \* UART: the most recent call, its inputs and its outcome
    hist,         \* UART: the outcomes of the three most recent calls, oldest first
    script,       \* UART: the exchange the attached device is set up for
    pty_fd,       \* PTY: self._fd, optional file descriptor
    os_fds,       \* PTY: the descriptors of the port the process holds open
    pty_last,     \* PTY: the outcome of the most recent call
    pty_hist,     \* PTY: the outcomes of the three most recent lifecycle calls
    pty_io,       \* PTY: inputs and results of the most recent command call
    rd_pc,        \* PTY read loop: "idle", "select", "read" or "done"
    rd_timeout,   \* PTY read loop: the timeout argument, in ticks
    rd_clock,     \* PTY read loop: ticks elapsed since the loop was entered
    rd_buf,       \* PTY read loop: buf
    rd_ret,       \* PTY read loop: the text returned, optional
    ctx_kind,     \* context: "none", "generic", "uart" or "sched"
    ctx_cmd,      \* context: self._cmd, a list of texts
    ctx_args,     \* context: self._args, a dict as the sequence of its items
    ctx_proc,     \* context: _async_process / _pid / _process, optional pid
    ctx_last,     \* context: the most recent call and what it sent
    ctx_with,     \* context: the most recent with statement
    fstab_entries, \* fstab: self.entries
    fstab_last,   \* fstab: the most recent save and what it wrote
    kc_file,      \* KConfig: the file, and the entries it was written from
    kc_config,    \* KConfig: self.entries, and whether they are as loaded
    kc_last,      \* KConfig: the most recent call and its outcome
    fhs_heap,     \* FHS: the lists of directories that the profiles refer to
    fhs_last,     \* FHS: the most recent call and its outcome
    qemu_config,  \* QEMU: the QEMUConfig object and its CPUTopology
    qemu_last     \* QEMU: the most recent call and its outcome

uart_vars == <<constructed, is_open, ps1, last, hist, script>>

pty_vars == <<pty_fd, os_fds, pty_last, pty_hist, pty_io>>

rd_vars == <<rd_pc, rd_timeout, rd_clock, rd_buf, rd_ret>>

ctx_vars == <<ctx_kind, ctx_cmd, ctx_args, ctx_proc, ctx_last, ctx_with>>

fstab_vars == <<fstab_entries, fstab_last>>

\* the variables of the helpers
kc_vars == <<kc_file, kc_config, kc_last>>

fhs_vars == <<fhs_heap, fhs_last>>

qemu_vars == <<qemu_config, qemu_last>>

lib_vars == <<fstab_vars, kc_vars, fhs_vars, qemu_vars>>

\* the variables of the communication layers and the contexts
comm_vars == <<uart_vars, pty_vars, rd_vars, ctx_vars>>

vars == <<comm_vars, lib_vars>>

----------------------------------------------------------------------------
(* Bounds of the model. *)

\* number of descriptors the process may hold open at once
MaxFds == 4
\* longest command text of the echo-stripping specification
MaxCmd == 2
\* longest device output of the echo-stripping specification
MaxOut == 3

----------------------------------------------------------------------------
(* Optional values. *)

None == <<>>

Some(v) == <<v>>

----------------------------------------------------------------------------
(* Text and byte helpers: Python's str and bytes operations used by shell. *)

\* the line terminator shell appends to the command, b"\n"
LF == 10
\* the separator of " ".join(command)
SP == 32
\* the first character of the ANSI escape pattern, \x1B
ESC == 27

\* the characters str.strip() removes (Unicode White_Space below U+0100)
IsSpace(c) == c \in (9..13) \cup (28..32) \cup {133, 160}

RECURSIVE LStrip(_)
LStrip(s) ==
    IF s # <<>> /\ IsSpace(Head(s)) THEN LStrip(Tail(s)) ELSE s

RECURSIVE RStrip(_)
RStrip(s) ==
    IF s # <<>> /\ IsSpace(s[Len(s)]) THEN RStrip(SubSeq(s, 1, Len(s) - 1)) ELSE s

\* str.strip()
Strip(s) == RStrip(LStrip(s))

\* sep.join(toks)
RECURSIVE Join(_, _)
Join(toks, sep) ==
    IF toks = <<>> THEN <<>>
    ELSE IF Len(toks) = 1 THEN toks[1]
    ELSE toks[1] \o sep \o Join(Tail(toks), sep)

\* whether old occurs in s at index i
OccursAt(s, old, i) ==
    /\ i + Len(old) - 1 <= Len(s)
    /\ SubSeq(s, i, i + Len(old) - 1) = old

\* old in s
Contains(s, old) == \E i \in 1..(Len(s) + 1) : OccursAt(s, old, i)

RECURSIVE ReplaceFrom(_, _, _)
ReplaceFrom(s, old, i) ==
    IF i > Len(s) THEN <<>>
    ELSE IF OccursAt(s, old, i) THEN ReplaceFrom(s, old, i + Len(old))
    ELSE <<s[i]>> \o ReplaceFrom(s, old, i + 1)

\* s.replace(old, ""): every non-overlapping occurrence, leftmost first;
\* replacing the empty string by the empty string changes nothing
Replace(s, old) == IF old = <<>> THEN s ELSE ReplaceFrom(s, old, 1)

\* one code point as UTF-8
EncodeChar(c) ==
    IF c < 128 THEN <<c>>
    ELSE IF c < 2048 THEN <<192 + (c \div 64), 128 + (c % 64)>>
    ELSE IF c < 65536
         THEN <<224 + (c \div 4096), 128 + ((c \div 64) % 64), 128 + (c % 64)>>
    ELSE <<240 + (c \div 262144), 128 + ((c \div 4096) % 64),
           128 + ((c \div 64) % 64), 128 + (c % 64)>>

\* str.encode()
RECURSIVE Encode(_)
Encode(s) == IF s = <<>> THEN <<>> ELSE EncodeChar(Head(s)) \o Encode(Tail(s))

IsCont(b) == b \in 128..191

\* the length of the well-formed UTF-8 sequence that starts b at index i, or 0
Utf8Len(b, i) ==
    LET n == Len(b) - i + 1
        b0 == b[i]
    IN IF b0 < 128 THEN 1
       ELSE IF b0 \in 194..223
            THEN IF n >= 2 /\ IsCont(b[i + 1]) THEN 2 ELSE 0
       ELSE IF b0 \in 224..239
            THEN IF /\ n >= 3
                    /\ IsCont(b[i + 1])
                    /\ IsCont(b[i + 2])
                    /\ (b0 = 224 => b[i + 1] >= 160)
                    /\ (b0 = 237 => b[i + 1] <= 159)
                 THEN 3 ELSE 0
       ELSE IF b0 \in 240..244
            THEN IF /\ n >= 4
                    /\ IsCont(b[i + 1])
                    /\ IsCont(b[i + 2])
                    /\ IsCont(b[i + 3])
                    /\ (b0 = 240 => b[i + 1] >= 144)
                    /\ (b0 = 244 => b[i + 1] <= 143)
                 THEN 4 ELSE 0
       ELSE 0

\* the code point of the well-formed sequence of length k at index i
Utf8Point(b, i, k) ==
    IF k = 1 THEN b[i]
    ELSE IF k = 2 THEN (b[i] - 192) * 64 + (b[i + 1] - 128)
    ELSE IF k = 3
         THEN (b[i] - 224) * 4096 + (b[i + 1] - 128) * 64 + (b[i + 2] - 128)
    ELSE (b[i] - 240) * 262144 + (b[i + 1] - 128) * 4096
         + (b[i + 2] - 128) * 64 + (b[i + 3] - 128)

\* bytes.decode(): strict UTF-8; ok is FALSE where Python raises
\* UnicodeDecodeError
RECURSIVE DecodeFrom(_, _)
DecodeFrom(b, i) ==
    IF i > Len(b) THEN [ok |-> TRUE, text |-> <<>>]
    ELSE LET k == Utf8Len(b, i)
         IN IF k = 0 THEN [ok |-> FALSE, text |-> <<>>]
            ELSE LET rest == DecodeFrom(b, i + k)
                 IN [ok |-> rest.ok,
                     text |-> IF rest.ok
                              THEN <<Utf8Point(b, i, k)>> \o rest.text
                              ELSE <<>>]

Decode(b) == DecodeFrom(b, 1)

\* the first index at or after j whose character is outside lo..hi
RECURSIVE SkipClass(_, _, _, _)
SkipClass(s, j, lo, hi) ==
    IF j <= Len(s) /\ s[j] \in lo..hi THEN SkipClass(s, j + 1, lo, hi) ELSE j

\* the length of the match of \x1B(?:[@-Z\\-_]|\[[0-?]*[ -/]*[@-~]) at index
\* i, or 0.  The three classes of the second alternative are disjoint, so
\* the greedy match is the only one.
AnsiMatchLen(s, i) ==
    IF s[i] # ESC \/ i + 1 > Len(s) THEN 0
    ELSE IF s[i + 1] \in (64..90) \cup (92..95) THEN 2
    ELSE IF s[i + 1] # 91 THEN 0
    ELSE LET j == SkipClass(s, SkipClass(s, i + 2, 48, 63), 32, 47)
         IN IF j <= Len(s) /\ s[j] \in 64..126 THEN j - i + 1 ELSE 0

RECURSIVE AnsiSubFrom(_, _)
AnsiSubFrom(s, i) ==
    IF i > Len(s) THEN <<>>
    ELSE LET k == AnsiMatchLen(s, i)
         IN IF k > 0 THEN AnsiSubFrom(s, i + k)
            ELSE <<s[i]>> \o AnsiSubFrom(s, i + 1)

\* ansi_escape.sub("", s)
AnsiSub(s) == AnsiSubFrom(s, 1)

\* the number of bytes of the ill-formed sequence at index i that one
\* U+FFFD replaces: the lead byte and the continuation bytes that may
\* follow it
BadLen(b, i) ==
    LET n == Len(b) - i + 1
        b0 == b[i]
        second == /\ n >= 2
                  /\ IsCont(b[i + 1])
                  /\ (b0 = 224 => b[i + 1] >= 160)
                  /\ (b0 = 237 => b[i + 1] <= 159)
                  /\ (b0 = 240 => b[i + 1] >= 144)
                  /\ (b0 = 244 => b[i + 1] <= 143)
    IN IF b0 \in 224..239 THEN (IF second THEN 2 ELSE 1)
       ELSE IF b0 \in 240..244
            THEN (IF ~second THEN 1
                  ELSE IF n >= 3 /\ IsCont(b[i + 2]) THEN 3 ELSE 2)
       ELSE 1

\* bytes.decode(errors="replace")
DecodeReplace(b) ==
    LET RECURSIVE From(_)
        From(i) ==
            IF i > Len(b) THEN <<>>
            ELSE LET k == Utf8Len(b, i)
                 IN IF k = 0 THEN <<65533>> \o From(i + BadLen(b, i))
                    ELSE <<Utf8Point(b, i, k)>> \o From(i + k)
    IN From(1)

\* str(toks) of a list of strs of printable ASCII without quote and
\* backslash: "['a', 'b']"
PyStrList(toks) ==
    <<91>> \o Join([k \in DOMAIN toks |-> <<39>> \o toks[k] \o <<39>>],
                   <<44, SP>>) \o <<93>>

----------------------------------------------------------------------------
(* UARTCommLayer (communication/uart.py).                                  *)
(* A lifecycle operation returns the new value of is_open and the error it *)
(* raised ("none" when it returned normally).                              *)

\* the text of a command: a list is joined by single spaces, a str is taken
\* as it is (a str command c is carried as the one-token list <<c>>)
CmdStr(command) ==
    IF command.is_list THEN Join(command.toks, <<SP>>) ELSE command.toks[1]

\* the bytes shell hands to self._con.write
WriteData(cmd, environment) == Encode(cmd) \o <<LF>>

\* the byte count shell expects self._con.write to return
ExpectedWritten(cmd) == Len(cmd) + 1

\* UARTCommLayer.start_comm
start_comm(open) ==
    IF open THEN [err |-> "AlreadyOpen", open |-> open]
    ELSE [err |-> "none", open |-> TRUE]

\* UARTCommLayer._unchecked_close_comm
unchecked_close_comm(open) == [err |-> "none", open |-> FALSE]

\* close_comm without its check of is_open
close_comm_unchecked(open) == unchecked_close_comm(open)

\* UARTCommLayer.close_comm
close_comm(open) ==
    IF ~open THEN [err |-> "NotOpen", open |-> open]
    ELSE unchecked_close_comm(open)

\* the connection shell writes to: opened first when it is closed
ShellAcquire(open) ==
    IF ~open THEN start_comm(open) ELSE [err |-> "none", open |-> open]

\* shell returning without closing the connection
ShellReleaseKeepsOpen(open) == [err |-> "none", open |-> open]

\* what shell does with the connection once the output is computed
ShellRelease(open) == close_comm(open)

\* shell removing the prompt but not the echoed command
ShellTextKeepsEcho(prompt, cmd, text) ==
    LET r0 == AnsiSub(text)
    IN Strip(IF prompt # None THEN Replace(r0, prompt[1]) ELSE r0)

\* the text shell computes from the decoded response
ShellText(prompt, cmd, text) ==
    LET r0 == AnsiSub(text)
        r1 == IF prompt # None THEN Replace(r0, prompt[1]) ELSE r0
    IN Strip(Replace(r1, cmd))

\* the response as text: bytes.decode() with the default error handler
ShellDecode(rx) == Decode(rx)

\* UARTCommLayer.shell: open is self._con.is_open and prompt self._ps1 at
\* the call, nwritten the value self._con.write returns and rx the bytes
\* self._con.readall returns.  tx is what reached the wire.
shell(open, prompt, command, environment, nwritten, rx) ==
    LET acq == ShellAcquire(open)
        cmd == CmdStr(command)
        data == WriteData(cmd, environment)
        tx == SubSeq(data, 1, nwritten)
        dec == ShellDecode(rx)
    IN IF acq.err # "none"
       THEN [err |-> acq.err, open |-> acq.open, tx |-> <<>>, ret |-> None]
       ELSE IF nwritten # ExpectedWritten(cmd)
       THEN [err |-> "ShortWrite", open |-> acq.open, tx |-> tx, ret |-> None]
       ELSE IF ~dec.ok
       THEN [err |-> "UnicodeDecodeError", open |-> acq.open, tx |-> tx,
             ret |-> None]
       ELSE LET rel == ShellRelease(acq.open)
            IN [err |-> rel.err, open |-> rel.open, tx |-> tx,
                ret |-> IF rel.err = "none"
                        THEN Some(ShellText(prompt, cmd, dec.text))
                        ELSE None]

\* a str command
StrCmd(s) == [is_list |-> FALSE, toks |-> <<s>>]

\* a list command
ListCmd(toks) == [is_list |-> TRUE, toks |-> toks]

\* the outcome of a call: the operation, is_open at the call, the error
Outcome(op, pre_open, err) == [op |-> op, pre_open |-> pre_open, err |-> err]

NoCall == Outcome("none", FALSE, "none")

\* hist with one more outcome, the oldest dropped
Remember(h, op, pre_open, err) == <<h[2], h[3], Outcome(op, pre_open, err)>>

\* the record of a call
Call(op, pre_open, err, command, environment, nwritten, rx, tx, ret) ==
    [op |-> op, pre_open |-> pre_open, err |-> err, command |-> command,
     environment |-> environment, nwritten |-> nwritten, rx |-> rx, tx |-> tx,
     ret |-> ret]

NoCommand == StrCmd(<<>>)

\* the record of a call that is no shell call
PlainCall(op, pre_open, err) ==
    Call(op, pre_open, err, NoCommand, None, 0, <<>>, <<>>, None)

----------------------------------------------------------------------------
(* The serial device at the other end of the line. *)

CRLF == <<13, 10>>

\* what an echoing terminal with prompt p sends back for the command text
\* cmd whose output is out: the prompt, the echoed command, the output and
\* the next prompt
EchoResponse(p, cmd, out) ==
    Encode(p \o <<SP>> \o cmd \o CRLF \o out \o CRLF \o p \o <<SP>>)

\* "~ #"
DevicePrompt == <<126, 32, 35>>

\* "ls", "l", "s", "A", "1"
TextLs == <<108, 115>>

TextL == <<108>>

TextS == <<115>>

TextA == <<65>>

TextOne == <<49>>

\* the commands of the lifecycle specification: "ls", "e-acute" (one
\* character, two bytes) and ["l", "s"]
Commands == {StrCmd(TextLs), StrCmd(<<233>>), ListCmd(<<TextL, TextS>>)}

\* the environments of the lifecycle specification: none and {"A": "1"}, a
\* dict as the sequence of its items
Environments == {None, Some(<< <<TextA, TextOne>> >>)}

\* what readall may return after the command text cmd: the echo and the
\* output "ok", nothing at all, or line noise that is not UTF-8
Responses(cmd) ==
    {EchoResponse(DevicePrompt, cmd, <<111, 107>>), <<>>, <<111, 255, 107>>}

NoScript == [cmd |-> <<>>, out |-> <<>>]

----------------------------------------------------------------------------
(* Actions of the UART layer. *)

\* UARTCommLayer.__init__ with ps1 = prompt: a closed serial.Serial; a prompt
\* that is not supplied is read with shell("")
UartConstruct(prompt, nwritten, rx) ==
    /\ ~constructed
    /\ LET r == IF prompt = None
                THEN shell(FALSE, None, NoCommand, None, nwritten, rx)
                ELSE [err |-> "none", open |-> FALSE, tx |-> <<>>, ret |-> None]
       IN /\ constructed' = (r.err = "none")
          /\ is_open' = r.open
          /\ ps1' = IF prompt # None THEN prompt
                    ELSE IF r.err = "none" THEN Some(Strip(r.ret[1]))
                    ELSE None
          /\ last' = Call("init", FALSE, r.err, NoCommand, None,
                          IF prompt = None THEN nwritten ELSE 0,
                          IF prompt = None THEN rx ELSE <<>>, r.tx, r.ret)
          /\ hist' = Remember(hist, "init", FALSE, r.err)
    /\ UNCHANGED <<script, pty_vars, rd_vars, ctx_vars, lib_vars>>

\* a call of start_comm
UartStartComm ==
    /\ constructed
    /\ LET r == start_comm(is_open)
       IN /\ is_open' = r.open
          /\ last' = PlainCall("start_comm", is_open, r.err)
          /\ hist' = Remember(hist, "start_comm", is_open, r.err)
    /\ UNCHANGED <<constructed, ps1, script, pty_vars, rd_vars, ctx_vars, lib_vars>>

\* a call of close_comm
UartCloseComm ==
    /\ constructed
    /\ LET r == close_comm(is_open)
       IN /\ is_open' = r.open
          /\ last' = PlainCall("close_comm", is_open, r.err)
          /\ hist' = Remember(hist, "close_comm", is_open, r.err)
    /\ UNCHANGED <<constructed, ps1, script, pty_vars, rd_vars, ctx_vars, lib_vars>>

\* a call of shell(command, environment=environment)
UartShell(command, environment, nwritten, rx) ==
    /\ constructed
    /\ LET r == shell(is_open, ps1, command, environment, nwritten, rx)
       IN /\ is_open' = r.open
          /\ last' = Call("shell", is_open, r.err, command, environment,
                          nwritten, rx, r.tx, r.ret)
          /\ hist' = Remember(hist, "shell", is_open, r.err)
    /\ UNCHANGED <<constructed, ps1, script, pty_vars, rd_vars, ctx_vars, lib_vars>>

\* the number of bytes self._con.write may accept of the line of command
Accepted(command, environment) ==
    0..Len(WriteData(CmdStr(command), environment))

\* the arguments of PTYCommLayer.shell at their default values; print_input
\* and print_output only select what is printed
ShellDefaults(command) ==
    [command |-> command, std_input |-> None, current_dir |-> None,
     environment |-> None, shell |-> FALSE, print_curdir |-> TRUE,
     timeout |-> Some(1), output_is_log |-> FALSE,
     ignore_ret_codes |-> <<>>, ignore_any_error_code |-> FALSE]

\* the arguments shell_succeed hands to shell when called with its defaults
SucceedDefaults(command) ==
    [ShellDefaults(command) EXCEPT !.print_curdir = FALSE, !.timeout = None]

\* the record of a command call: the arguments of the shell call it makes, the
\* bytes the device delivers, the exit code of the command on the target,
\* the command line built, the bytes written, the value returned (a text or
\* a boolean) and the error of the shell call itself
Io(a, rx, code, r, inner) ==
    [args |-> a, rx |-> rx, code |-> code, line |-> r.line, wrote |-> r.wrote,
     text |-> r.text, flag |-> r.flag, inner |-> inner]

\* the result of a command operation
Result(err, line, wrote, text, flag) ==
    [err |-> err, line |-> line, wrote |-> wrote, text |-> text, flag |-> flag]

NoIo ==
    Io(ShellDefaults(NoCommand), <<>>, 0,
       Result("none", None, <<>>, None, None), "none")

\* no read loop is running
RdInit ==
    /\ rd_pc = "idle"
    /\ rd_timeout = 1
    /\ rd_clock = 0
    /\ rd_buf = <<>>
    /\ rd_ret = None

\* what a context call sent to the transport and how it ended
CtxCall(op, pre_proc, err, sent) ==
    [op |-> op, pre_proc |-> pre_proc, err |-> err, sent |-> sent]

\* a with statement: where it is, the calls it made in order, whether the
\* body raised and the exception that left the statement
With(pc, trace, body_raised, exc) ==
    [pc |-> pc, trace |-> trace, body_raised |-> body_raised, exc |-> exc]

\* no context object exists yet
CtxInit ==
    /\ ctx_kind = "none"
    /\ ctx_cmd = <<>>
    /\ ctx_args = <<>>
    /\ ctx_proc = None
    /\ ctx_last = CtxCall("none", None, "none", <<>>)
    /\ ctx_with = With("out", <<>>, FALSE, "none")

\* the PTY layer after PTYCommLayer.__init__
PtyInit ==
    /\ pty_fd = None
    /\ os_fds = {}
    /\ pty_last = NoCall
    /\ pty_hist = <<NoCall, NoCall, NoCall>>
    /\ pty_io = NoIo

\* the UART layer before UARTCommLayer.__init__ runs
UartInit ==
    /\ constructed = FALSE
    /\ is_open = FALSE
    /\ ps1 = None
    /\ last = PlainCall("none", FALSE, "none")
    /\ hist = <<NoCall, NoCall, NoCall>>
    /\ script = NoScript

\* the helpers' objects as their constructors leave them: an fstab without
\* entries
\* fstab(): no entries
FstabInit ==
    /\ fstab_entries = <<>>
    /\ fstab_last = [err |-> "none", writes |-> <<>>, saved |-> <<>>]

\* before a configuration is loaded: an object without entries, no file
KcInit ==
    /\ kc_file = [text |-> <<>>, origin |-> "raw", entries |-> <<>>]
    /\ kc_config = [entries |-> <<>>, clean |-> FALSE]
    /\ kc_last = [op |-> "none", err |-> "none", origin |-> "raw",
                  written |-> <<>>, read |-> <<>>, streams |-> <<>>]

\* the module fhs once imported: MINIMAL_BASE_DIRS (which is the base_dirs
\* of MINIMAL), MINIMAL_USR_DIRS (which is the user_subdirs of MINIMAL and
\* of STANDARD) and the base_dirs of STANDARD
FhsInit ==
    /\ fhs_heap =
           [min_base |-> <<"bin", "dev", "lib", "sbin", "proc", "sys", "usr">>,
            min_usr |-> <<"bin", "sbin", "local", "local/bin">>,
            std_base |-> <<"bin", "dev", "lib", "sbin", "proc", "sys", "usr",
                           "etc", "tmp">>]
    /\ fhs_last = [op |-> "none", profile |-> "MINIMAL", err |-> "none",
                   made |-> <<>>, before |-> fhs_heap]

\* before a QEMUConfig is constructed
QemuInit ==
    /\ qemu_config =
           [constructed |-> FALSE, guest_logical_cores |-> 0,
            cpu_topology |-> [nb_cores |-> 1, nb_threads_per_core |-> 1,
                              nb_sockets |-> 1, isolated_cores |-> {}]]
    /\ qemu_last = [op |-> "none", err |-> "none", cpus |-> <<>>,
                    order |-> [is_str |-> TRUE, name |-> "asc", ids |-> <<>>],
                    result |-> <<>>]

LibInit == FstabInit /\ KcInit /\ FhsInit /\ QemuInit

Init == UartInit /\ PtyInit /\ RdInit /\ CtxInit /\ LibInit

Next ==
    \/ \E prompt \in {None, Some(DevicePrompt)} :
         \E nwritten \in Accepted(NoCommand, None) :
           \E rx \in Responses(<<>>) : UartConstruct(prompt, nwritten, rx)
    \/ UartStartComm
    \/ UartCloseComm
    \/ \E command \in Commands, environment \in Environments :
         \E nwritten \in Accepted(command, environment) :
           \E rx \in Responses(CmdStr(command)) :
             UartShell(command, environment, nwritten, rx)

Spec == Init /\ [][Next]_vars

----------------------------------------------------------------------------
(* Echo and prompt stripping: the layer has a configured prompt, the       *)
(* device echoes the command and answers it with the output of the script. *)

\* '#', 'A' and ' ': the characters of the scripted commands
CmdChars == {35, 65, SP}

\* '#', 'A', ESC and LF: the characters of the scripted outputs
OutChars == {35, 65, ESC, LF}

\* the texts of at most n characters of chars
Texts(chars, n) == UNION {[1..k -> chars] : k \in 0..n}

\* the configured prompts: "#", "A#" and "~ #"
WirePrompts == {<<35>>, <<65, 35>>, DevicePrompt}

\* shell(script.cmd) written in full and answered by the echoing device
UartShellScript ==
    UartShell(StrCmd(script.cmd), None,
              Len(WriteData(script.cmd, None)),
              EchoResponse(ps1[1], script.cmd, script.out))

WireInit ==
    /\ constructed = TRUE
    /\ is_open = FALSE
    /\ ps1 \in {Some(p) : p \in WirePrompts}
    /\ last = PlainCall("none", FALSE, "none")
    /\ hist = <<NoCall, NoCall, NoCall>>
    /\ script \in [cmd : Texts(CmdChars, MaxCmd), out : Texts(OutChars, MaxOut)]
    /\ PtyInit
    /\ RdInit
    /\ CtxInit
    /\ LibInit

WireNext == UartShellScript

SpecWire == WireInit /\ [][WireNext]_vars

----------------------------------------------------------------------------
(* PTYCommLayer (communication/pty.py): the lifecycle.                     *)
(* An operation returns the new self._fd, the descriptors the process      *)
(* holds and the error it raised ("none" when it returned normally).       *)

\* os.open(self._port, os.O_RDWR | os.O_NOCTTY): the lowest free descriptor,
\* OSError when the process has none left
os_open(fds) ==
    IF Cardinality(fds) >= MaxFds
    THEN [err |-> "OSError", fd |-> None, fds |-> fds]
    ELSE LET d == CHOOSE x \in 1..MaxFds :
                      x \notin fds /\ \A y \in 1..(x - 1) : y \in fds
         IN [err |-> "none", fd |-> Some(d), fds |-> fds \cup {d}]

\* PTYCommLayer.start_comm
pty_start_comm(fd, fds) ==
    LET o == os_open(fds)
    IN IF o.err # "none" THEN [err |-> o.err, fd |-> fd, fds |-> fds]
       ELSE [err |-> "none", fd |-> o.fd, fds |-> o.fds]

\* PTYCommLayer.close_comm: self._fd is the int os.open returned, and an int
\* has no close method
pty_close_comm(fd, fds) ==
    IF fd # None THEN [err |-> "AttributeError", fd |-> fd, fds |-> fds]
    ELSE [err |-> "PTYException", fd |-> fd, fds |-> fds]

\* PTYCommLayer.__enter__
pty_enter(fd, fds) ==
    IF fd = None THEN pty_start_comm(fd, fds)
    ELSE [err |-> "PTYException", fd |-> fd, fds |-> fds]

\* PTYCommLayer.__exit__
pty_exit(fd, fds) == pty_close_comm(fd, fds)

\* a call of the lifecycle operation op with result r
PtyCall(op, r) ==
    /\ pty_fd' = r.fd
    /\ os_fds' = r.fds
    /\ pty_last' = Outcome(op, pty_fd # None, r.err)
    /\ pty_hist' = Remember(pty_hist, op, pty_fd # None, r.err)
    /\ pty_io' = NoIo
    /\ UNCHANGED <<uart_vars, rd_vars, ctx_vars, lib_vars>>

PtyStartComm == PtyCall("start_comm", pty_start_comm(pty_fd, os_fds))

PtyCloseComm == PtyCall("close_comm", pty_close_comm(pty_fd, os_fds))

PtyEnter == PtyCall("enter", pty_enter(pty_fd, os_fds))

PtyExit == PtyCall("exit", pty_exit(pty_fd, os_fds))

PtyNext ==
    \/ PtyStartComm
    \/ PtyCloseComm
    \/ PtyEnter
    \/ PtyExit

SpecPTY == Init /\ [][PtyNext]_vars

----------------------------------------------------------------------------
(* PTYCommLayer (communication/pty.py): shell and the operations built on  *)
(* it.  A command operation returns its error ("none" when it returned     *)
(* normally), the command line it built, the bytes it wrote to the         *)
(* descriptor and the value it returned.  PTYException("Not supported      *)
(* attributes") is the error "NotSupported", PTYException("Open the        *)
(* communication before sending a command") the error "NotOpen".           *)

\* the literal texts of the PTY operations and "/x", a path on the target
Lit ==
    [none |-> <<78, 111, 110, 101>>, kill |-> <<107, 105, 108, 108>>, hostname |-> <<104, 111, 115, 116, 110, 97, 109, 101>>,
     whoami |-> <<119, 104, 111, 97, 109, 105>>,
     readlink |-> <<114, 101, 97, 100, 108, 105, 110, 107, 32, 45, 102, 109>>,
     mkdir |-> <<109, 107, 100, 105, 114>>, p |-> <<32, 45, 112, 32>>, rm |-> <<114, 109>>,
     r |-> <<45, 114>>, f |-> <<45, 102>>, d |-> <<45, 100>>,
     which |-> <<119, 104, 105, 99, 104>>, path |-> <<47, 120>>]

\* the test that opens shell: True when an argument is not supported
Unsupported(a) ==
    \/ a.current_dir # None
    \/ a.shell # FALSE
    \/ a.print_curdir = TRUE
    \/ a.output_is_log = TRUE
    \/ a.ignore_ret_codes # <<>>
    \/ a.ignore_any_error_code # FALSE

\* " ".join of f"{k}={v}" for the items of dict(environment), whose keys
\* are distinct
EnvPrefix(environment) ==
    IF environment = None THEN <<>>
    ELSE Join([k \in DOMAIN environment[1] |->
                   environment[1][k][1] \o <<61>> \o environment[1][k][2]],
              <<SP>>)

\* str(command): the text itself, or the repr of the list
PyStr(command) ==
    IF command.is_list THEN PyStrList(command.toks) ELSE command.toks[1]

\* command_str as shell builds it
command_str(a) ==
    EnvPrefix(a.environment) \o PyStr(a.command) \o
    (IF a.std_input = None THEN <<>> ELSE <<124, SP>> \o a.std_input[1])

\* PTYCommLayer.shell on a device that delivers the bytes rx and then stays
\* silent for one timeout; nothing is written to the descriptor
pty_shell(fd, a, rx) ==
    IF Unsupported(a) THEN Result("NotSupported", None, <<>>, None, None)
    ELSE IF fd = None
    THEN Result("NotOpen", Some(command_str(a)), <<>>, None, None)
    ELSE IF a.timeout = None
    THEN Result("TypeError", Some(command_str(a)), <<>>, None, None)
    ELSE Result("none", Some(command_str(a)), <<>>,
                Some(DecodeReplace(rx)), None)

\* shell_succeed with every failure of shell turned into False
pty_shell_succeed_catch_all(fd, a, rx) ==
    LET r == pty_shell(fd, a, rx)
    IN Result("none", r.line, r.wrote, None, Some(r.err = "none"))

\* PTYCommLayer.shell_succeed: shell with the same arguments, and False for
\* subprocess.CalledProcessError only
pty_shell_succeed(fd, a, rx) ==
    LET r == pty_shell(fd, a, rx)
    IN IF r.err = "none" THEN [r EXCEPT !.text = None, !.flag = Some(TRUE)]
       ELSE IF r.err = "CalledProcessError"
       THEN [r EXCEPT !.err = "none", !.flag = Some(FALSE)]
       ELSE r

RECURSIVE IntStr(_)
\* str(n) of a natural number
IntStr(n) ==
    IF n < 10 THEN <<48 + n>> ELSE IntStr(n \div 10) \o <<48 + (n % 10)>>

\* the shell result r with its text replaced by None
NoText(r) == [r EXCEPT !.text = None]

\* the result r of shell with its text stripped
Stripped(r) ==
    IF r.err = "none" THEN [r EXCEPT !.text = Some(Strip(r.text[1]))] ELSE r

\* PTYCommLayer._bracket_test after its shell call ended as r; code is the
\* exit code of the test on the target, which reaches the caller as the
\* returncode of CalledProcessError
pty_bracket_test(r, code) ==
    IF r.err = "none" THEN [r EXCEPT !.text = None, !.flag = Some(TRUE)]
    ELSE IF r.err = "CalledProcessError"
    THEN (IF 1 # code THEN r
          ELSE [r EXCEPT !.err = "none", !.flag = Some(FALSE)])
    ELSE r

\* shell with print_curdir=False and nothing else beside the command
Plain(command) == [ShellDefaults(command) EXCEPT !.print_curdir = FALSE]

\* the argument lists of the shell calls, for the commands "ls" and
\* ["l", "s"]: the defaults, print_curdir=False, and print_curdir=False with
\* one more argument given
ShellArgs ==
    UNION {{ShellDefaults(c),
            Plain(c),
            [Plain(c) EXCEPT !.environment = Some(<< <<TextA, TextOne>> >>)],
            [Plain(c) EXCEPT !.std_input = Some(TextA)],
            [Plain(c) EXCEPT !.current_dir = Some(Lit.path)],
            [Plain(c) EXCEPT !.shell = TRUE],
            [Plain(c) EXCEPT !.timeout = None],
            [Plain(c) EXCEPT !.output_is_log = TRUE],
            [Plain(c) EXCEPT !.ignore_ret_codes = <<1>>],
            [Plain(c) EXCEPT !.ignore_any_error_code = TRUE]}
           : c \in {StrCmd(TextLs), ListCmd(<<TextL, TextS>>)}}

\* the argument lists of the shell_succeed calls: the defaults, a timeout
\* given, print_curdir=True
SucceedArgs ==
    UNION {{SucceedDefaults(c),
            [SucceedDefaults(c) EXCEPT !.timeout = Some(1)],
            [SucceedDefaults(c) EXCEPT !.print_curdir = TRUE]}
           : c \in {StrCmd(TextLs), ListCmd(<<TextL, TextS>>)}}

\* what the device delivers before it goes silent: nothing, "ok", " ok\n",
\* "o" and a byte that is not UTF-8
PtyReads == {<<>>, <<111, 107>>, <<SP, 111, 107, LF>>, <<111, 255>>}

\* signal.SIGINT
SIGINT == 2

\* a call of the command operation op that hands the arguments a to shell,
\* with result r
PtyCmd(op, a, rx, code, r) ==
    /\ pty_last' = Outcome(op, pty_fd # None, r.err)
    /\ pty_io' = Io(a, rx, code, r, pty_shell(pty_fd, a, rx).err)
    /\ UNCHANGED <<pty_fd, os_fds, pty_hist, uart_vars, rd_vars, ctx_vars, lib_vars>>

PtyShell(a, rx) == PtyCmd("shell", a, rx, 0, pty_shell(pty_fd, a, rx))

PtyShellSucceed(a, rx) ==
    PtyCmd("shell_succeed", a, rx, 0, pty_shell_succeed(pty_fd, a, rx))

\* signal: shell(command=f"kill -{signal_code} {pid}")
PtySignal(pid, signal_code, rx) ==
    LET a == ShellDefaults(StrCmd(
                 Lit.kill \o <<SP, 45>> \o IntStr(signal_code) \o <<SP>>
                     \o (IF pid = None THEN Lit.none ELSE IntStr(pid[1]))))
    IN PtyCmd("signal", a, rx, 0, NoText(pty_shell(pty_fd, a, rx)))

\* hostname: shell(command="hostname").strip()
PtyHostname(rx) ==
    LET a == ShellDefaults(StrCmd(Lit.hostname))
    IN PtyCmd("hostname", a, rx, 0, Stripped(pty_shell(pty_fd, a, rx)))

\* current_user: shell(command="whoami").strip()
PtyCurrentUser(rx) ==
    LET a == ShellDefaults(StrCmd(Lit.whoami))
    IN PtyCmd("current_user", a, rx, 0, Stripped(pty_shell(pty_fd, a, rx)))

\* realpath: Path(shell(command=f"readlink -fm {path}").strip()); the
\* module does not import Path
PtyRealpath(path, rx) ==
    LET a == ShellDefaults(StrCmd(Lit.readlink \o <<SP>> \o path))
        r == pty_shell(pty_fd, a, rx)
    IN PtyCmd("realpath", a, rx, 0,
              IF r.err = "none" THEN [NoText(r) EXCEPT !.err = "NameError"]
              ELSE r)

\* makedirs: shell(command=f"mkdir{exist_opt} {path}")
PtyMakedirs(path, exist_ok, rx) ==
    LET a == ShellDefaults(StrCmd(
                 Lit.mkdir \o (IF exist_ok THEN Lit.p ELSE <<>>)
                     \o <<SP>> \o path))
    IN PtyCmd("makedirs", a, rx, 0, NoText(pty_shell(pty_fd, a, rx)))

\* remove: shell(command=["rm"] + (["-r"] if recursive else []) + [str(path)])
PtyRemove(path, recursive, rx) ==
    LET a == ShellDefaults(ListCmd(
                 <<Lit.rm>> \o (IF recursive THEN <<Lit.r>> ELSE <<>>)
                     \o <<path>>))
    IN PtyCmd("remove", a, rx, 0, NoText(pty_shell(pty_fd, a, rx)))

\* isfile (opt "-f") and isdir (opt "-d"): _bracket_test, whose command is
\* f"[ {opt} {path} ]"
PtyBracketTest(op, path, opt, code, rx) ==
    LET a == ShellDefaults(StrCmd(
                 <<91, SP>> \o opt \o <<SP>> \o path \o <<SP, 93>>))
    IN PtyCmd(op, a, rx, code, pty_bracket_test(pty_shell(pty_fd, a, rx), code))

PtyIsfile(path, code, rx) == PtyBracketTest("isfile", path, Lit.f, code, rx)

PtyIsdir(path, code, rx) == PtyBracketTest("isdir", path, Lit.d, code, rx)

\* which: shell_succeed and then shell, each with its own defaults; the
\* module does not import Path
PtyWhich(cmd, rx) ==
    LET command == StrCmd(Lit.which \o <<SP>> \o cmd)
        which_succeed == pty_shell_succeed(pty_fd, SucceedDefaults(command), rx)
        r == pty_shell(pty_fd, ShellDefaults(command), rx)
    IN PtyCmd("which", SucceedDefaults(command), rx, 0,
              IF which_succeed.err # "none" THEN which_succeed
              ELSE IF which_succeed.flag = Some(FALSE)
              THEN [which_succeed EXCEPT !.flag = None]
              ELSE IF r.err # "none" THEN r
              ELSE IF Strip(r.text[1]) = <<>> THEN NoText(r)
              ELSE [NoText(r) EXCEPT !.err = "NameError"])

PtyShellNext ==
    \/ PtyStartComm
    \/ \E a \in ShellArgs, rx \in PtyReads : PtyShell(a, rx)
    \/ \E a \in SucceedArgs, rx \in PtyReads : PtyShellSucceed(a, rx)
    \/ \E pid \in {None, Some(7), Some(12)}, rx \in PtyReads :
         PtySignal(pid, SIGINT, rx)
    \/ \E rx \in PtyReads : PtyHostname(rx)
    \/ \E rx \in PtyReads : PtyCurrentUser(rx)
    \/ \E rx \in PtyReads : PtyRealpath(Lit.path, rx)
    \/ \E exist_ok \in BOOLEAN, rx \in PtyReads :
         PtyMakedirs(Lit.path, exist_ok, rx)
    \/ \E recursive \in BOOLEAN, rx \in PtyReads :
         PtyRemove(Lit.path, recursive, rx)
    \/ \E code \in 0..2, rx \in PtyReads : PtyIsfile(Lit.path, code, rx)
    \/ \E code \in 0..2, rx \in PtyReads : PtyIsdir(Lit.path, code, rx)
    \/ \E rx \in PtyReads : PtyWhich(TextLs, rx)

SpecPTYShell == Init /\ [][PtyShellNext]_vars

----------------------------------------------------------------------------
(* Properties of the UART lifecycle, checked under Spec. *)

Ok(c) == c.err = "none"

LifecycleErrors == {"AlreadyOpen", "NotOpen"}

\* C1: a shell call that returns normally has written to the channel,
\* returns a text and leaves the connection Closed, no shell call ends in a
\* lifecycle error whatever calls came before it, and a layer whose
\* constructor returned is Closed and has a prompt, supplied or detected.
C1_ShellLeavesClosed ==
    /\ (last.op = "shell" /\ Ok(last)) =>
           /\ ~is_open
           /\ last.tx # <<>>
           /\ last.ret # None
    /\ last.op \in {"shell", "init"} => last.err \notin LifecycleErrors
    /\ (last.op = "init" /\ Ok(last)) => (constructed /\ ~is_open /\ ps1 # None)

\* C1 witness: the constructor and then two shell calls in a row returned
\* normally, the first of them on a Closed connection.
C1_Witness ==
    /\ hist[1].op = "init" /\ Ok(hist[1])
    /\ hist[2].op = "shell" /\ Ok(hist[2]) /\ ~hist[2].pre_open
    /\ hist[3].op = "shell" /\ Ok(hist[3])
    /\ ~is_open

\* C2: start_comm succeeds exactly from Closed and leaves the connection
\* Open, close_comm succeeds exactly from Open and leaves it Closed, a
\* failing call leaves the state as it was, and start_comm, close_comm,
\* start_comm from Closed succeed all three.
C2_TwoStateLifecycle ==
    /\ last.op = "start_comm" =>
           /\ Ok(last) <=> ~last.pre_open
           /\ ~Ok(last) => last.err = "AlreadyOpen"
           /\ is_open
    /\ last.op = "close_comm" =>
           /\ Ok(last) <=> last.pre_open
           /\ ~Ok(last) => last.err = "NotOpen"
           /\ ~is_open
    /\ ( /\ hist[1].op = "start_comm" /\ ~hist[1].pre_open
         /\ hist[2].op = "close_comm"
         /\ hist[3].op = "start_comm" ) =>
           (Ok(hist[1]) /\ Ok(hist[2]) /\ Ok(hist[3]) /\ is_open)

\* C2 witness: start_comm, close_comm, start_comm from Closed.
C2_Witness ==
    /\ hist[1].op = "start_comm" /\ ~hist[1].pre_open
    /\ hist[2].op = "close_comm"
    /\ hist[3].op = "start_comm" /\ Ok(hist[3])

\* C3: shell leaves a connection as it found it (it closes only a
\* connection it opened itself), so start_comm, shell, close_comm by the
\* caller raises no lifecycle error.
C3_CallerScopedShell ==
    /\ (last.op = "shell" /\ Ok(last)) => (is_open = last.pre_open)
    /\ ( /\ hist[1].op = "start_comm" /\ Ok(hist[1])
         /\ hist[2].op = "shell" /\ Ok(hist[2])
         /\ hist[3].op = "close_comm" ) => Ok(hist[3])

\* C4: when shell fails the connection is Closed as the error reaches the
\* caller.
C4_ClosedOnError ==
    (last.op = "shell" /\ ~Ok(last)) => ~is_open

\* C6: shell raises the short-write error exactly when the serial write
\* accepted fewer bytes than the encoded command line has.
C6_ShortWriteIffFewerBytes ==
    last.op = "shell" =>
        ( last.err = "ShortWrite" <=>
          last.nwritten < Len(Encode(CmdStr(last.command))) + 1 )

\* C9: no decoding error of the response reaches the caller of shell.
C9_NoDecodeError ==
    last.op = "shell" => last.err # "UnicodeDecodeError"

\* the text NAME=value of an item of an environment
Assignment(item) == item[1] \o <<61>> \o item[2]

\* C10: a shell call with an environment that returns normally has written
\* every NAME=value of the environment to the channel, ahead of the command.
C10_EnvironmentWritten ==
    (last.op = "shell" /\ Ok(last) /\ last.environment # None) =>
        \A k \in DOMAIN last.environment[1] :
            Contains(last.tx, Encode(Assignment(last.environment[1][k])))

----------------------------------------------------------------------------
(* Properties of echo and prompt stripping, checked under SpecWire. *)

\* the scripted exchange has been carried out
Answered == last.op = "shell" /\ Ok(last)

\* no character of t is in chars
Without(t, chars) == \A k \in DOMAIN t : t[k] \notin chars

\* neither the prompt nor the command can be mistaken: the prompt does not
\* occur in the echoed " " + command, and prompt and command hold no escape
\* character and no line break
PlainEcho ==
    /\ ~Contains(<<SP>> \o script.cmd, ps1[1])
    /\ Without(ps1[1] \o script.cmd, {ESC, 13, LF})

\* C7 as stated: for the response P + ' ' + C + CRLF + OUT + CRLF + P + ' '
\* with OUT containing neither P nor C, shell(C) returns OUT trimmed.
C7_AsStated ==
    ( /\ Answered
      /\ ~Contains(script.out, ps1[1])
      /\ ~Contains(script.out, script.cmd) ) =>
        last.ret = Some(Strip(script.out))

\* C7 amended: for that response with OUT containing neither P nor C nor
\* an escape character, P not occurring in ' ' + C, and P and C free of
\* escape characters and line breaks, shell(C) returns OUT trimmed.
C7_EchoAndPromptStripped ==
    ( /\ Answered
      /\ PlainEcho
      /\ Without(script.out, {ESC})
      /\ ~Contains(script.out, ps1[1])
      /\ ~Contains(script.out, script.cmd) ) =>
        last.ret = Some(Strip(script.out))

\* C7 witness: such an exchange whose output is not blank and has
\* whitespace to trim.
C7_Witness ==
    /\ Answered
    /\ PlainEcho
    /\ Without(script.out, {ESC})
    /\ ~Contains(script.out, ps1[1])
    /\ ~Contains(script.out, script.cmd)
    /\ script.cmd # <<>>
    /\ Strip(script.out) # <<>>
    /\ Strip(script.out) # script.out
    /\ last.ret = Some(Strip(script.out))

\* C8: only the echoed copy of the command is removed: an output free of
\* prompt and escape characters is returned trimmed and otherwise
\* unchanged, also when it contains the command text.
C8_OutputUnchanged ==
    ( /\ Answered
      /\ PlainEcho
      /\ Without(script.out, {ESC})
      /\ ~Contains(script.out, ps1[1]) ) =>
        last.ret = Some(Strip(script.out))

----------------------------------------------------------------------------
(* Properties of the PTY lifecycle, checked under SpecPTY. *)

\* C5: close_comm on an Open layer succeeds and leaves it Closed,
\* start_comm on an Open layer and close_comm on a Closed layer fail, and
\* start_comm, close_comm, start_comm from Closed (as the two with-blocks
\* enter, exit, enter) succeed all three.
C5_PtyTwoStateLifecycle ==
    /\ (pty_last.op = "close_comm" /\ pty_last.pre_open) =>
           (Ok(pty_last) /\ pty_fd = None)
    /\ (pty_last.op = "start_comm" /\ pty_last.pre_open) => ~Ok(pty_last)
    /\ (pty_last.op = "close_comm" /\ ~pty_last.pre_open) => ~Ok(pty_last)
    /\ ( /\ pty_hist[1].op \in {"start_comm", "enter"} /\ ~pty_hist[1].pre_open
         /\ pty_hist[2].op \in {"close_comm", "exit"}
         /\ pty_hist[3].op = pty_hist[1].op ) =>
           (Ok(pty_hist[1]) /\ Ok(pty_hist[2]) /\ Ok(pty_hist[3]))

----------------------------------------------------------------------------
(* Properties of PTY shell and the operations built on it, checked under   *)
(* SpecPTYShell.                                                           *)

\* C11: a PTY shell call given a token sequence builds the same command
\* line as the call given the tokens joined by single spaces.
C11_TokensJoinedBySpaces ==
    (pty_last.op = "shell" /\ pty_io.line # None /\ pty_io.args.command.is_list)
        => pty_io.line =
               Some(command_str([pty_io.args EXCEPT !.command =
                        StrCmd(Join(pty_io.args.command.toks, <<SP>>))]))

\* C12: the text a PTY shell call returns has no leading and no trailing
\* whitespace, whatever bytes were read.
C12_ReturnedTextStripped ==
    (pty_last.op = "shell" /\ Ok(pty_last))
        => pty_io.text = Some(Strip(pty_io.text[1]))

\* C13: on an Open PTY layer, shell with every parameter but the command at
\* its default reads and returns a text, and the operations built on such a
\* call do not fail with the unsupported-attributes error.
C13_DefaultsSupported ==
    /\ (/\ pty_last.op = "shell"
        /\ pty_last.pre_open
        /\ pty_io.args = ShellDefaults(pty_io.args.command))
           => (Ok(pty_last) /\ pty_io.text # None)
    /\ (/\ pty_last.op \in {"signal", "hostname", "current_user", "realpath",
                           "makedirs", "remove", "isfile", "isdir"}
        /\ pty_last.pre_open)
           => pty_last.err # "NotSupported"

\* C14: a PTY shell call that returns normally has written the command line
\* it built to the descriptor.
C14_CommandWritten ==
    (pty_last.op = "shell" /\ Ok(pty_last))
        => Contains(pty_io.wrote, Encode(pty_io.line[1]))

\* C16: shell_succeed returns true exactly when the shell call it makes
\* returns normally, returns false exactly when that call fails with
\* CalledProcessError, and raises the error of that call otherwise.
C16_SucceedMirrorsShell ==
    pty_last.op = "shell_succeed" =>
        /\ (Ok(pty_last) /\ pty_io.flag = Some(TRUE)) <=> (pty_io.inner = "none")
        /\ (Ok(pty_last) /\ pty_io.flag = Some(FALSE))
               <=> (pty_io.inner = "CalledProcessError")
        /\ pty_io.inner \notin {"none", "CalledProcessError"}
               => pty_last.err = pty_io.inner
        /\ Ok(pty_last) => pty_io.flag # None

\* shell_succeed returned true after a read on an Open layer
C16_Witness ==
    /\ pty_last.op = "shell_succeed"
    /\ pty_last.pre_open
    /\ Ok(pty_last)
    /\ pty_io.flag = Some(TRUE)
    /\ pty_io.rx # <<>>

\* C17: which returns normally, with the not-found value or a non-empty
\* path.
C17_WhichNeverRaises ==
    pty_last.op = "which" =>
        /\ Ok(pty_last)
        /\ (pty_io.text = None \/ pty_io.text[1] # <<>>)

\* C18: on an Open layer isfile and isdir return true when the test exits
\* with 0, false when it exits with 1, and raise for every other exit code.
C18_BracketTestMapping ==
    (pty_last.op \in {"isfile", "isdir"} /\ pty_last.pre_open) =>
        /\ pty_io.code = 0 => (Ok(pty_last) /\ pty_io.flag = Some(TRUE))
        /\ pty_io.code = 1 => (Ok(pty_last) /\ pty_io.flag = Some(FALSE))
        /\ pty_io.code \notin {0, 1} => ~Ok(pty_last)

----------------------------------------------------------------------------
(* PTYCommLayer.shell: the read loop, one select or one os.read per step.  *)
(* Time is counted in ticks.  A select that finds the descriptor readable  *)
(* returns before its timeout has passed; a select that does not returns   *)
(* the empty list after exactly one timeout.                               *)

\* CHUNK_SIZE of pty.py
CHUNK_SIZE == 1024

\* the device stops delivering after this many ticks
MaxClock == 4

\* the device stops delivering after this many bytes
MaxBuf == 3

\* what one os.read returns: no data (end of file), "o", "k\n"
Chunks == {<<>>, <<111>>, <<107, LF>>}

\* start_comm between two shell calls
RdStartComm ==
    /\ rd_pc \in {"idle", "done"}
    /\ PtyStartComm

\* shell(command, print_curdir=False, timeout=timeout) on an Open layer
\* reaches the loop with an empty buf
RdBegin(timeout) ==
    /\ rd_pc \in {"idle", "done"}
    /\ pty_fd # None
    /\ rd_pc' = "select"
    /\ rd_timeout' = timeout
    /\ rd_clock' = 0
    /\ rd_buf' = <<>>
    /\ rd_ret' = None
    /\ UNCHANGED <<uart_vars, pty_vars, ctx_vars, lib_vars>>

\* select returns the descriptor after d ticks, d less than the timeout
RdSelectReady(d) ==
    /\ rd_pc = "select"
    /\ d < rd_timeout
    /\ rd_clock + d <= MaxClock
    /\ rd_pc' = "read"
    /\ rd_clock' = rd_clock + d
    /\ UNCHANGED <<rd_timeout, rd_buf, rd_ret, uart_vars, pty_vars, ctx_vars, lib_vars>>

\* select returns the empty list after one timeout: break, decode, return
RdSelectIdle ==
    /\ rd_pc = "select"
    /\ rd_pc' = "done"
    /\ rd_clock' = rd_clock + rd_timeout
    /\ rd_ret' = Some(DecodeReplace(rd_buf))
    /\ UNCHANGED <<rd_timeout, rd_buf, uart_vars, pty_vars, ctx_vars, lib_vars>>

\* chunk = os.read(self._fd, CHUNK_SIZE); buf.extend(chunk)
RdRead(chunk) ==
    /\ rd_pc = "read"
    /\ Len(chunk) <= CHUNK_SIZE
    /\ Len(rd_buf) + Len(chunk) <= MaxBuf
    /\ rd_buf' = rd_buf \o chunk
    /\ rd_pc' = "select"
    /\ UNCHANGED <<rd_timeout, rd_clock, rd_ret, uart_vars, pty_vars, ctx_vars, lib_vars>>

PtyReadNext ==
    \/ RdStartComm
    \/ \E timeout \in 1..2 : RdBegin(timeout)
    \/ \E d \in 0..MaxClock : RdSelectReady(d)
    \/ RdSelectIdle
    \/ \E chunk \in Chunks : RdRead(chunk)

SpecPTYRead == Init /\ [][PtyReadNext]_vars

\* C15: the read loop of PTY shell ends at the timeout: while the loop is
\* still selecting or reading, less than one timeout has passed since shell
\* entered it, whatever the pattern of byte arrival.
C15_LoopEndsAtTimeout ==
    rd_pc \in {"select", "read"} => rd_clock < rd_timeout

----------------------------------------------------------------------------
(* The background-tool contexts: StressNgContext and its two subclasses    *)
(* (commandwrappers/stressng.py) and SchedulerExtension                    *)
(* (helpers/linux/sched_ext.py).  An operation returns its error, the new  *)
(* self._cmd and process handle, and the calls it made on the transport.   *)

\* the longest self._cmd a start may build
MaxCtxCmd == 5

\* the literal texts of the contexts: "stress-ng", " &" and the args key
\* "--cpu"
CtxLit == [stress_ng |-> <<115, 116, 114, 101, 115, 115, 45, 110, 103>>, amp |-> <<32, 38>>, cpu |-> <<45, 45, 99, 112, 117>>]

\* str.splitlines()
SplitLines(t) ==
    LET breaks == {10, 11, 12, 13, 28, 29, 30, 133, 8232, 8233}
        RECURSIVE From(_, _)
        From(i, cur) ==
            IF i > Len(t) THEN (IF cur = <<>> THEN <<>> ELSE <<cur>>)
            ELSE IF t[i] \in breaks
            THEN <<cur>> \o
                 From(IF t[i] = 13 /\ i < Len(t) /\ t[i + 1] = LF
                      THEN i + 2 ELSE i + 1, <<>>)
            ELSE From(i + 1, Append(cur, t[i]))
    IN From(1, <<>>)

\* re.search(r"\[([^\]]+)\]", t): group 1 of the first match, if any
BracketSearch(t) ==
    LET RECURSIVE First(_, _)
        First(ch, i) ==
            IF i > Len(t) THEN 0
            ELSE IF t[i] = ch THEN i
            ELSE First(ch, i + 1)
        RECURSIVE From(_)
        From(i) ==
            LET o == First(91, i)
                c == First(93, o + 1)
            IN IF o = 0 \/ c = 0 THEN None
               ELSE IF c = o + 1 THEN From(o + 1)
               ELSE Some(SubSeq(t, o + 1, c - 1))
    IN From(1)

\* int(t) of a text of ASCII characters without underscore: surrounding
\* whitespace and one sign are accepted
ParseInt(t) ==
    LET u == Strip(t)
        signed == u # <<>> /\ u[1] \in {43, 45}
        digits == IF signed THEN Tail(u) ELSE u
        RECURSIVE Value(_)
        Value(k) == IF k = 0 THEN 0 ELSE 10 * Value(k - 1) + (digits[k] - 48)
    IN IF digits = <<>> \/ \E k \in DOMAIN digits : digits[k] \notin 48..57
       THEN [ok |-> FALSE, n |-> 0]
       ELSE [ok |-> TRUE,
             n |-> IF signed /\ u[1] = 45 THEN 0 - Value(Len(digits))
                   ELSE Value(Len(digits))]

\* the cmd property: self._cmd, extended in place by [k, str(v)] for each
\* item of self._args
cmd(c, args) ==
    LET RECURSIVE ArgTokens(_)
        ArgTokens(k) ==
            IF k > Len(args) THEN <<>>
            ELSE <<args[k][1], IntStr(args[k][2])>> \o ArgTokens(k + 1)
    IN c \o ArgTokens(1)

\* a call on the transport
Sent(call, line, pid) == [call |-> call, line |-> line, pid |-> pid]

\* the result of a context operation
CtxResult(err, c, proc, sent) ==
    [err |-> err, cmd |-> c, proc |-> proc, sent |-> sent]

\* GenericStressNgContext.start; async is what shell_async does
generic_start(c, args, proc, async) ==
    LET line == cmd(c, args)
    IN CtxResult(async.err, line,
                 IF async.err = "none" THEN Some(async.pid) ELSE proc,
                 <<Sent("shell_async", line, None)>>)

\* GenericStressNgContext.end; sig is how comm.signal ends
generic_end(c, proc, sig) ==
    IF proc # None
    THEN CtxResult(sig, c, proc, <<Sent("signal", <<>>, proc)>>)
    ELSE CtxResult("Exception", c, proc, <<>>)

\* UARTStressNgContext.start; sh is what comm.shell does
uart_start(c, args, proc, sh) ==
    LET line == cmd(c, args)
        sent == <<Sent("shell", <<Join(line, <<SP>>) \o CtxLit.amp>>, None)>>
        lines == SplitLines(sh.ret)
        ret == Join(IF lines = <<>> THEN <<>> ELSE Tail(lines), <<SP>>)
        match == BracketSearch(ret)
    IN IF sh.err # "none" THEN CtxResult(sh.err, line, proc, sent)
       ELSE IF match = None THEN CtxResult("none", line, proc, sent)
       ELSE IF ~ParseInt(match[1]).ok
       THEN CtxResult("ValueError", line, proc, sent)
       ELSE CtxResult("none", line, Some(ParseInt(match[1]).n), sent)

\* UARTStressNgContext.end; sig is how comm.signal ends
uart_end(c, proc, sig) ==
    CtxResult(sig, c, proc, <<Sent("signal", <<>>, proc)>>)

\* start of the subclass StressNgContext.__new__ selected
start(kind, c, args, proc, async, sh) ==
    IF kind = "uart" THEN uart_start(c, args, proc, sh)
    ELSE generic_start(c, args, proc, async)

\* end of the subclass StressNgContext.__new__ selected
end(kind, c, proc, sig) ==
    IF kind = "uart" THEN uart_end(c, proc, sig)
    ELSE generic_end(c, proc, sig)

\* __exit__ returning True
stress_exit_suppressing(kind, c, proc, exception_type, sig) ==
    [result |-> end(kind, c, proc, sig), calls |-> <<"end">>,
     suppress |-> TRUE]

\* StressNgContext.__exit__: the result of end, the methods called and
\* whether the value returned is true
stress_exit(kind, c, proc, exception_type, sig) ==
    [result |-> end(kind, c, proc, sig), calls |-> <<"end">>,
     suppress |-> FALSE]

\* what shell_async does: a handle with a pid, or an error
AsyncOutcomes ==
    {[err |-> "none", pid |-> 7], [err |-> "TransportError", pid |-> 0]}

\* what comm.shell does on the UART: "&\n[1] 42", "&", "&\n[a]" or an error
ShellOutcomes ==
    {[err |-> "none", ret |-> <<38, LF, 91, 49, 93, SP, 52, 50>>],
     [err |-> "none", ret |-> <<38>>],
     [err |-> "none", ret |-> <<38, LF, 91, 97, 93>>],
     [err |-> "TransportError", ret |-> <<>>]}

\* how comm.signal and process.stop end
CallOutcomes == {"none", "TransportError"}

\* a context call outside a with statement, with result r
CtxDo(op, r) ==
    /\ ctx_with.pc = "out"
    /\ ctx_cmd' = r.cmd
    /\ ctx_proc' = r.proc
    /\ ctx_last' = CtxCall(op, ctx_proc, r.err, r.sent)
    /\ UNCHANGED <<ctx_kind, ctx_args, ctx_with, uart_vars, pty_vars, rd_vars, lib_vars>>

\* StressNgContext(args, [], platform): __new__ selects the subclass by the
\* platform's transport
StressConstruct(kind, args) ==
    /\ ctx_kind = "none"
    /\ ctx_kind' = kind
    /\ ctx_cmd' = <<CtxLit.stress_ng>>
    /\ ctx_args' = args
    /\ ctx_proc' = None
    /\ ctx_last' = CtxCall("init", None, "none", <<>>)
    /\ UNCHANGED <<ctx_with, uart_vars, pty_vars, rd_vars, lib_vars>>

\* SchedulerExtension(platform, path_to_extension, out_dir)
SchedConstruct ==
    /\ ctx_kind = "none"
    /\ ctx_kind' = "sched"
    /\ ctx_proc' = None
    /\ ctx_last' = CtxCall("init", None, "none", <<>>)
    /\ UNCHANGED <<ctx_cmd, ctx_args, ctx_with, uart_vars, pty_vars, rd_vars, lib_vars>>

\* start() called directly
CtxStart(async, sh) ==
    /\ ctx_kind \in {"generic", "uart"}
    /\ Len(cmd(ctx_cmd, ctx_args)) <= MaxCtxCmd
    /\ CtxDo("start", start(ctx_kind, ctx_cmd, ctx_args, ctx_proc, async, sh))

\* end() called directly
CtxEnd(sig) ==
    /\ ctx_kind \in {"generic", "uart"}
    /\ CtxDo("end", end(ctx_kind, ctx_cmd, ctx_proc, sig))

\* SchedulerExtension.__enter__; async is what shell_async does
SchedEnter(async) ==
    /\ ctx_kind = "sched"
    /\ CtxDo("sched_enter",
             CtxResult(async.err, ctx_cmd,
                       IF async.err = "none" THEN Some(async.pid)
                       ELSE ctx_proc,
                       <<Sent("shell_async", <<>>, None)>>))

\* SchedulerExtension.__exit__; stop is how self._process.stop() ends
SchedExit(stop) ==
    /\ ctx_kind = "sched"
    /\ CtxDo("sched_exit",
             IF ctx_proc = None
             THEN CtxResult("RuntimeError", ctx_cmd, ctx_proc, <<>>)
             ELSE CtxResult(stop, ctx_cmd, ctx_proc,
                            <<Sent("stop", <<>>, ctx_proc)>>))

\* with ctx: the statement calls __enter__, which calls start; the body
\* runs when it returns
WithEnter(async, sh) ==
    LET e == start(ctx_kind, ctx_cmd, ctx_args, ctx_proc, async, sh)
    IN /\ ctx_kind \in {"generic", "uart"}
       /\ ctx_with.pc = "out"
       /\ Len(cmd(ctx_cmd, ctx_args)) <= MaxCtxCmd
       /\ ctx_cmd' = e.cmd
       /\ ctx_proc' = e.proc
       /\ ctx_last' = CtxCall("enter", ctx_proc, e.err, e.sent)
       /\ ctx_with' = With(IF e.err = "none" THEN "body" ELSE "out",
                           <<"start">>, FALSE, e.err)
       /\ UNCHANGED <<ctx_kind, ctx_args, uart_vars, pty_vars, rd_vars, lib_vars>>

\* the body ends, returning (None) or raising; the statement calls __exit__
\* and raises what __exit__ raises, else the body's exception unless
\* __exit__ returned a true value
WithLeave(body, sig) ==
    LET x == stress_exit(ctx_kind, ctx_cmd, ctx_proc, body, sig)
    IN /\ ctx_with.pc = "body"
       /\ ctx_cmd' = x.result.cmd
       /\ ctx_proc' = x.result.proc
       /\ ctx_last' = CtxCall("exit", ctx_proc, x.result.err, x.result.sent)
       /\ ctx_with' = With("out", ctx_with.trace \o <<"body">> \o x.calls,
                           body # None,
                           IF x.result.err # "none" THEN x.result.err
                           ELSE IF body # None /\ ~x.suppress THEN body[1]
                           ELSE "none")
       /\ UNCHANGED <<ctx_kind, ctx_args, uart_vars, pty_vars, rd_vars, lib_vars>>

CtxNext ==
    \/ \E kind \in {"generic", "uart"}, args \in {<<>>, << <<CtxLit.cpu, 2>> >>} :
         StressConstruct(kind, args)
    \/ SchedConstruct
    \/ \E async \in AsyncOutcomes, sh \in ShellOutcomes : CtxStart(async, sh)
    \/ \E sig \in CallOutcomes : CtxEnd(sig)
    \/ \E async \in AsyncOutcomes : SchedEnter(async)
    \/ \E stop \in CallOutcomes : SchedExit(stop)
    \/ \E async \in AsyncOutcomes, sh \in ShellOutcomes : WithEnter(async, sh)
    \/ \E body \in {None, Some("BodyError")}, sig \in CallOutcomes :
         WithLeave(body, sig)

SpecCtx == Init /\ [][CtxNext]_vars

\* C19: end or __exit__ called on a context that has no process handle and
\* no pid recorded raises and calls nothing on the transport.
C19_EndWithoutHandleRaises ==
    (ctx_last.op \in {"end", "exit", "sched_exit"} /\ ctx_last.pre_proc = None)
        => (ctx_last.err # "none" /\ ctx_last.sent = <<>>)

\* C20: a with statement on a StressNgContext calls start exactly once and
\* first; once the body has run it has called end exactly once, after the
\* body, and when the body raised the statement raises.
C20_WithStartsOnceEndsOnce ==
    LET Times(m) ==
            Cardinality({k \in DOMAIN ctx_with.trace : ctx_with.trace[k] = m})
    IN ctx_with.trace # <<>> =>
        /\ ctx_with.trace[1] = "start"
        /\ Times("start") = 1
        /\ ctx_with.pc = "body" => ctx_with.trace = <<"start">>
        /\ (ctx_with.pc = "out" /\ Times("body") = 0)
               => (ctx_with.trace = <<"start">> /\ ctx_with.exc # "none")
        /\ (ctx_with.pc = "out" /\ Times("body") > 0)
               => /\ ctx_with.trace = <<"start", "body", "end">>
                  /\ ctx_with.body_raised => ctx_with.exc # "none"

\* a with statement whose body raised has called end and raised the body's
\* exception
C20_Witness ==
    /\ ctx_with.pc = "out"
    /\ ctx_with.trace = <<"start", "body", "end">>
    /\ ctx_with.body_raised
    /\ ctx_with.exc = "BodyError"
    /\ ctx_last.sent # <<>>

----------------------------------------------------------------------------
(* More properties of PTY shell, checked under SpecPTYShell. *)

\* C21: a PTY shell call that passes a working directory or an environment
\* fails with the unsupported-attributes error, builds no command line, does
\* no channel I/O and leaves the connection state as it was.
C21_UnsupportedRejected ==
    (/\ pty_last.op = "shell"
     /\ (pty_io.args.current_dir # None \/ pty_io.args.environment # None))
        => /\ pty_last.err = "NotSupported"
           /\ pty_io.line = None
           /\ pty_io.wrote = <<>>
           /\ pty_io.text = None
           /\ pty_last.pre_open = (pty_fd # None)

----------------------------------------------------------------------------
(* fstab (helpers/linux/fhs.py).  An entry is a record of the texts of its *)
(* mount point (str of what and where, fstype), the list of its options,   *)
(* dump and the value of pass_num.                                         *)

\* the longest list of entries
MaxEntries == 3

\* fstab.save: the lines, the header first
fstab_lines(entries) ==
    LET header ==
            <<35, 32, 60, 102, 105, 108, 101, 32, 115, 121, 115, 116, 101,
            109, 62, 32, 60, 109, 111, 117, 110, 116, 32, 112, 111, 105,
            110, 116, 62, 32, 32, 32, 60, 116, 121, 112, 101, 62, 32, 32,
            60, 111, 112, 116, 105, 111, 110, 115, 62, 32, 32, 32, 32, 32,
            32, 32, 60, 100, 117, 109, 112, 62, 32, 32, 60, 112, 97, 115,
            115, 62>>
        options(e) ==
            IF Len(e.options) > 1 THEN Join(e.options, <<44>>)
            ELSE e.options[1]
        line(e) ==
            e.what \o <<SP>> \o e.where \o <<SP>> \o e.fstype \o <<SP>>
                \o options(e) \o <<SP>> \o IntStr(e.dump) \o <<SP>>
                \o IntStr(e.pass_num)
    IN <<header>> \o [k \in DOMAIN entries |-> line(entries[k])]

\* fstab.save with "\n".join(lines) as the content
fstab_save_unterminated(entries) ==
    IF \E k \in DOMAIN entries : Len(entries[k].options) = 0
    THEN [err |-> "Exception", writes |-> <<>>]
    ELSE [err |-> "none", writes |-> <<Join(fstab_lines(entries), <<LF>>)>>]

\* fstab.save: the error raised and the contents handed to
\* platform.comm.write_content_to_file, one per call
fstab_save(entries) ==
    IF \E k \in DOMAIN entries : Len(entries[k].options) = 0
    THEN [err |-> "Exception", writes |-> <<>>]
    ELSE [err |-> "none",
          writes |-> <<Join(fstab_lines(entries), <<LF>>) \o <<LF>>>>]

\* self.entries.append(entry)
FstabAppend(entry) ==
    /\ Len(fstab_entries) < MaxEntries
    /\ fstab_entries' = Append(fstab_entries, entry)
    /\ UNCHANGED <<fstab_last, comm_vars, kc_vars, fhs_vars, qemu_vars>>

\* fstab.save(platform, output_path)
FstabSave ==
    /\ fstab_last' = [err |-> fstab_save(fstab_entries).err,
                      writes |-> fstab_save(fstab_entries).writes,
                      saved |-> fstab_entries]
    /\ UNCHANGED <<fstab_entries, comm_vars, kc_vars, fhs_vars, qemu_vars>>

\* the entries "/d / ext4 defaults 0 0", "none /proc proc noauto,ro 1 2",
\* "none /sys sysfs rw 0 1" and an entry without options
FstabEntries ==
    {[what |-> <<47, 100>>, where |-> <<47>>, fstype |-> <<101, 120, 116, 52>>,
      options |-> <<<<100, 101, 102, 97, 117, 108, 116, 115>>>>,
      dump |-> 0, pass_num |-> 0],
     [what |-> <<110, 111, 110, 101>>, where |-> <<47, 112, 114, 111, 99>>,
      fstype |-> <<112, 114, 111, 99>>,
      options |-> <<<<110, 111, 97, 117, 116, 111>>, <<114, 111>>>>,
      dump |-> 1, pass_num |-> 2],
     [what |-> <<110, 111, 110, 101>>, where |-> <<47, 115, 121, 115>>,
      fstype |-> <<115, 121, 115, 102, 115>>, options |-> <<<<114, 119>>>>,
      dump |-> 0, pass_num |-> 1],
     [what |-> <<110, 111, 110, 101>>, where |-> <<47, 100, 101, 118>>,
      fstype |-> <<100, 101, 118, 116, 109, 112, 102, 115>>,
      options |-> <<>>, dump |-> 0, pass_num |-> 0]}

SpecFstab ==
    Init /\ [][(\E e \in FstabEntries : FstabAppend(e)) \/ FstabSave]_vars

\* C22: a save of entries that all have an option makes one call of
\* write_content_to_file, with the header line and then one line per entry
\* in list order, the fields separated by single spaces, the options by
\* commas, each line ended by a line feed.
C22_FstabFormat ==
    LET RECURSIVE Commas(_, _)
        Commas(o, k) ==
            IF k > Len(o) THEN <<>>
            ELSE (IF k > 1 THEN <<44>> ELSE <<>>) \o o[k] \o Commas(o, k + 1)
        Row(e) ==
            Join(<<e.what, e.where, e.fstype, Commas(e.options, 1),
                   IntStr(e.dump), IntStr(e.pass_num)>>, <<SP>>) \o <<LF>>
        RECURSIVE Rows(_)
        Rows(k) ==
            IF k > Len(fstab_last.saved) THEN <<>>
            ELSE Row(fstab_last.saved[k]) \o Rows(k + 1)
        with_options ==
            \A k \in DOMAIN fstab_last.saved : fstab_last.saved[k].options # <<>>
    IN /\ with_options => fstab_last.err = "none"
       /\ (with_options /\ fstab_last.saved # <<>>) =>
              /\ Len(fstab_last.writes) = 1
              /\ fstab_last.writes[1] =
                     fstab_lines(<<>>)[1] \o <<LF>> \o Rows(1)
       /\ ~with_options => fstab_last.writes = <<>>

\* a save of two entries, one of them with two options
C22_Witness ==
    /\ Len(fstab_last.saved) = 2
    /\ \E k \in 1..2 : Len(fstab_last.saved[k].options) = 2
    /\ fstab_last.err = "none"
    /\ Len(fstab_last.writes) = 1

----------------------------------------------------------------------------
(* KConfig (helpers/kconfig.py).  A token is a record of its class and,    *)
(* for an identifier, its content; a token stream is the list _tokens      *)
(* (_pos is its length) with the error raised while it was built.  A       *)
(* dictionary is the list of its items in insertion order.                 *)

\* the longest file written by hand, in lines, and the longest file that
\* write_to_file writes, in characters
MaxLines == 2
MaxText == 14

\* a value of an entry: a bool, an int, a str or an _Ident object
Value(t, b, n, s) == [t |-> t, b |-> b, n |-> n, s |-> s]

\* str(value), as the f-string and the join format it
str(v) ==
    CASE v.t = "bool" -> IF v.b THEN <<84, 114, 117, 101>> ELSE <<70, 97, 108, 115, 101>>
      [] v.t = "int" -> IntStr(v.n)
      [] OTHER -> v.s

\* _Ident.try_downcast
try_downcast(content) ==
    IF content = <<121>> THEN Value("bool", TRUE, 0, <<>>)
    ELSE IF content = <<110>> THEN Value("bool", FALSE, 0, <<>>)
    ELSE IF content # <<>> /\ \A k \in DOMAIN content : content[k] \in 48..57
    THEN Value("int", FALSE, ParseInt(content).n, <<>>)
    ELSE Value("_Ident", FALSE, 0, content)

\* _transitions, by class name
transitions ==
    ("None" :> {"_Ident", "_Hashtag"})
        @@ ("_Ident" :> {"_Equal", "_EOL", "_Quote"})
        @@ ("_Hashtag" :> {"_Ident"})
        @@ ("_Equal" :> {"_Ident", "_Quote", "int", "bool"})
        @@ ("_Quote" :> {"_Ident", "_Quote"})
        @@ ("bool" :> {"_EOL"})
        @@ ("int" :> {"_EOL"})
        @@ ("_EOL" :> {})

\* _KConfigEntryTokenStream.add; a stream that has raised stays as it is
add(ts, token) ==
    IF ts.err # "none" THEN ts
    ELSE IF /\ Len(ts.tokens) > 0
            /\ token.t \notin transitions[ts.tokens[Len(ts.tokens)].t]
    THEN [ts EXCEPT !.err = "Exception"]
    ELSE [ts EXCEPT !.tokens = Append(@, token)]

\* _KConfigEntryTokenStream.entry: the error raised, whether None is
\* returned, and the key and the value of the entry
entry(tokens) ==
    LET NoEntry(err, none) ==
            [err |-> err, none |-> none, key |-> <<>>,
             value |-> Value("str", FALSE, 0, <<>>)]
        RECURSIVE Joined(_)
        Joined(k) ==
            IF k > Len(tokens) THEN <<>>
            ELSE (CASE tokens[k].t \in {"_Equal", "_EOL"} -> <<>>
                    [] tokens[k].t = "_Ident" ->
                           str(try_downcast(tokens[k].content))
                    [] tokens[k].t = "_Quote" -> <<34>>
                    [] tokens[k].t = "_Hashtag" -> <<35>>) \o Joined(k + 1)
    IN IF tokens = <<>> THEN NoEntry("IndexError", FALSE)
       ELSE IF tokens[1].t = "_Hashtag" THEN NoEntry("none", TRUE)
       ELSE IF tokens[1].t # "_Ident" THEN NoEntry("AttributeError", FALSE)
       ELSE IF Len(tokens) = 4
       THEN IF tokens[3].t # "_Ident" THEN NoEntry("AttributeError", FALSE)
            ELSE [err |-> "none", none |-> FALSE, key |-> tokens[1].content,
                  value |-> try_downcast(tokens[3].content)]
       ELSE [err |-> "none", none |-> FALSE, key |-> tokens[1].content,
             value |-> Value("str", FALSE, 0, Joined(2))]

\* parse_kconfig_entry: the token stream it builds and what it returns
parse_kconfig_entry(raw_entry_str) ==
    LET Tok(t, content) == [t |-> t, content |-> content]
        RECURSIVE Loop(_, _, _)
        Loop(i, ts, buffer) ==
            IF ts.err # "none" \/ i > Len(raw_entry_str)
            THEN [ts |-> ts, buffer |-> buffer]
            ELSE LET c == raw_entry_str[i] IN
                 CASE c = 35 ->
                        [ts |-> add(ts, Tok("_Hashtag", <<>>)), buffer |-> <<>>]
                   [] c = 61 ->
                        Loop(i + 1,
                             add(add(ts, Tok("_Ident", buffer)),
                                 Tok("_Equal", <<>>)), <<>>)
                   [] c = 34 ->
                        Loop(i + 1,
                             add(IF Len(buffer) > 0
                                 THEN add(ts, Tok("_Ident", buffer)) ELSE ts,
                                 Tok("_Quote", <<>>)), <<>>)
                   [] c \in (48..57) \cup (65..90) \cup (97..122)
                             \cup {95, 45, 46, 47, 40, 41, 44} ->
                        Loop(i + 1, ts, Append(buffer, c))
                   [] c = LF ->
                        Loop(i + 1,
                             add(add(ts, Tok("_Ident", buffer)),
                                 Tok("_EOL", <<>>)), <<>>)
                   [] c = SP -> Loop(i + 1, ts, buffer)
                   [] OTHER ->
                        [ts |-> [ts EXCEPT !.err = "Exception"],
                         buffer |-> buffer]
        after == Loop(1, [err |-> "none", tokens |-> <<>>], <<>>)
        flushed ==
            IF after.ts.err # "none" \/ Len(after.buffer) = 0 THEN after.ts
            ELSE IF after.ts.tokens = <<>>
            THEN [after.ts EXCEPT !.err = "IndexError"]
            ELSE IF after.ts.tokens[Len(after.ts.tokens)].t = "_Hashtag"
            THEN after.ts
            ELSE add(add(after.ts, Tok("_Ident", after.buffer)),
                     Tok("_EOL", <<>>))
    IN IF flushed.err # "none"
       THEN [entry(<<>>) EXCEPT !.err = flushed.err]
                @@ [tokens |-> flushed.tokens]
       ELSE entry(flushed.tokens) @@ [tokens |-> flushed.tokens]

\* KConfig.from_file on a file of the given text: the error raised, the
\* entries of the object built and the token stream of each line parsed
from_file(text) ==
    LET RECURSIVE LineEnd(_)
        LineEnd(i) ==
            IF i >= Len(text) \/ text[i] = LF THEN i ELSE LineEnd(i + 1)
        Set(d, key, value) ==
            IF \E k \in DOMAIN d : d[k].key = key
            THEN [k \in DOMAIN d |->
                     IF d[k].key = key THEN [key |-> key, value |-> value]
                     ELSE d[k]]
            ELSE Append(d, [key |-> key, value |-> value])
        RECURSIVE Lines(_, _, _)
        Lines(i, entries, streams) ==
            IF i > Len(text)
            THEN [err |-> "none", entries |-> entries, streams |-> streams]
            ELSE LET j == LineEnd(i)
                     p == parse_kconfig_entry(SubSeq(text, i, j))
                 IN IF p.err # "none"
                    THEN [err |-> p.err, entries |-> <<>>,
                          streams |-> Append(streams, p.tokens)]
                    ELSE Lines(j + 1,
                               IF p.none THEN entries
                               ELSE Set(entries, p.key, p.value),
                               Append(streams, p.tokens))
    IN Lines(1, <<>>, <<>>)

\* KConfig.write_to_file: the text written
write_to_file(entries) ==
    LET RECURSIVE Written(_)
        Written(k) ==
            IF k > Len(entries) THEN <<>>
            ELSE (IF entries[k].value.t = "bool"
                  THEN entries[k].key \o <<61>>
                           \o (IF entries[k].value.b THEN <<121>> ELSE <<110>>)
                           \o <<LF>>
                  ELSE entries[k].key \o <<61, 34>> \o str(entries[k].value)
                           \o <<34, LF>>) \o Written(k + 1)
    IN Written(1)

\* a line is added by hand to the file that from_file opens
KcAppendLine(line) ==
    /\ kc_file.origin = "raw"
    /\ IF kc_file.text = <<>> THEN TRUE
       ELSE kc_file.text[Len(kc_file.text)] = LF
    /\ Cardinality({k \in DOMAIN kc_file.text : kc_file.text[k] = LF})
           < MaxLines
    /\ kc_file' = [kc_file EXCEPT !.text = @ \o line]
    /\ UNCHANGED <<kc_config, kc_last, comm_vars, fstab_vars, fhs_vars, qemu_vars>>

\* config = KConfig.from_file(path)
KcFromFile ==
    LET r == from_file(kc_file.text) IN
    /\ kc_config' = IF r.err = "none"
                    THEN [entries |-> r.entries, clean |-> TRUE]
                    ELSE kc_config
    /\ kc_last' = [op |-> "from_file", err |-> r.err,
                   origin |-> kc_file.origin, written |-> kc_file.entries,
                   read |-> r.entries, streams |-> r.streams]
    /\ UNCHANGED <<kc_file, comm_vars, fstab_vars, fhs_vars, qemu_vars>>

\* config.entries[key] = value, config.entries.update({key: value})
KcSet(key, value) ==
    /\ kc_config' =
           [entries |->
                IF \E k \in DOMAIN kc_config.entries :
                       kc_config.entries[k].key = key
                THEN [k \in DOMAIN kc_config.entries |->
                         IF kc_config.entries[k].key = key
                         THEN [key |-> key, value |-> value]
                         ELSE kc_config.entries[k]]
                ELSE Append(kc_config.entries, [key |-> key, value |-> value]),
            clean |-> FALSE]
    /\ kc_last' = [kc_last EXCEPT !.op = "set", !.err = "none"]
    /\ UNCHANGED <<kc_file, comm_vars, fstab_vars, fhs_vars, qemu_vars>>

\* config.write_to_file(out), out being the path that from_file opens
KcWriteToFile ==
    /\ Len(write_to_file(kc_config.entries)) <= MaxText
    /\ kc_file' = [text |-> write_to_file(kc_config.entries),
                   origin |-> IF kc_config.clean THEN "resaved" ELSE "written",
                   entries |-> kc_config.entries]
    /\ kc_last' = [kc_last EXCEPT !.op = "write_to_file", !.err = "none"]
    /\ UNCHANGED <<kc_config, comm_vars, fstab_vars, fhs_vars, qemu_vars>>

\* the lines A=y, B=5, B=m, A="s", # c and "x", each with its line feed; the
\* values "hi", "y" and True for the key A
SpecKConfig ==
    Init /\ [][
              \/ \E line \in {<<65, 61, 121, 10>>, <<66, 61, 53, 10>>, <<66, 61, 109, 10>>,
                              <<65, 61, 34, 115, 34, 10>>, <<35, 32, 99, 10>>,
                              <<34, 120, 34, 10>>} : KcAppendLine(line)
              \/ KcFromFile
              \/ \E key \in {<<65>>} :
                   \E value \in {Value("str", FALSE, 0, <<104, 105>>),
                                 Value("str", FALSE, 0, <<121>>),
                                 Value("bool", TRUE, 0, <<>>)} : KcSet(key, value)
              \/ KcWriteToFile
         ]_vars

\* C23: a file written by write_to_file is read back by from_file with the
\* same keys in the same order, every boolean value unchanged and every other
\* value v, made of characters that the parser collects, as the text of v
\* between one pair of double quotes.
C23_WriteThenRead ==
    LET collected == (48..57) \cup (65..90) \cup (97..122)
                         \cup {95, 45, 46, 47, 40, 41, 44}
        plain ==
            \A k \in DOMAIN kc_last.written :
                \A i \in DOMAIN str(kc_last.written[k].value) :
                    str(kc_last.written[k].value)[i] \in collected
    IN (kc_last.op = "from_file" /\ kc_last.origin # "raw" /\ plain) =>
           /\ kc_last.err = "none"
           /\ Len(kc_last.read) = Len(kc_last.written)
           /\ \A k \in DOMAIN kc_last.written :
                  /\ kc_last.read[k].key = kc_last.written[k].key
                  /\ kc_last.read[k].value =
                         IF kc_last.written[k].value.t = "bool"
                         THEN kc_last.written[k].value
                         ELSE Value("str", FALSE, 0,
                                    <<34>> \o str(kc_last.written[k].value)
                                        \o <<34>>)

\* C25: a configuration loaded from a file and written back without
\* modification is loaded again with the same keys and the same values.
C25_LoadWriteLoadStable ==
    (kc_last.op = "from_file" /\ kc_last.origin = "resaved") =>
        /\ kc_last.err = "none"
        /\ kc_last.read = kc_last.written

\* C26: every token stream built while a file is read is a path of the
\* transition table from the initial state: the first token is allowed at
\* the start and each later token is allowed after the one before it.
C26_StreamIsPath ==
    kc_last.op = "from_file" =>
        \A l \in DOMAIN kc_last.streams :
            \A k \in DOMAIN kc_last.streams[l] :
                kc_last.streams[l][k].t \in
                    transitions[IF k = 1 THEN "None"
                                ELSE kc_last.streams[l][k - 1].t]

----------------------------------------------------------------------------
(* FHS and BusyboxInit (helpers/linux/fhs.py).  A directory is the text of *)
(* its path.  The profiles hold references to lists: fhs_heap has the      *)
(* contents of each list object, and a list that two names refer to is     *)
(* there once.                                                             *)

\* the longest list of directories
MaxDirs == 10

\* FHSProfile.MINIMAL.value and FHSProfile.STANDARD.value, read through
\* their references
FHSProfile(heap, profile) ==
    IF profile = "MINIMAL"
    THEN [base_dirs |-> heap.min_base, user_subdirs |-> heap.min_usr]
    ELSE [base_dirs |-> heap.std_base, user_subdirs |-> heap.min_usr]

\* FHSDirs.__contains__ for an item that is a profile or an FHSDirs
contains(self, item) ==
    /\ \A k \in DOMAIN item.base_dirs :
           \E j \in DOMAIN self.base_dirs :
               self.base_dirs[j] = item.base_dirs[k]
    /\ \A k \in DOMAIN item.user_subdirs :
           \E j \in DOMAIN self.user_subdirs :
               self.user_subdirs[j] = item.user_subdirs[k]

\* FHS.create: the lists after the call, the error raised and the
\* directories made, in order
create(heap, profile, extended) ==
    LET dirs == FHSProfile(heap, profile)
        base_dirs == IF extended = None THEN dirs.base_dirs
                     ELSE dirs.base_dirs \o extended[1].base_dirs
        user_subdirs == IF extended = None THEN dirs.user_subdirs
                        ELSE dirs.user_subdirs \o extended[1].user_subdirs
        after == IF profile = "MINIMAL"
                 THEN [heap EXCEPT !.min_base = base_dirs,
                                   !.min_usr = user_subdirs]
                 ELSE [heap EXCEPT !.std_base = base_dirs,
                                   !.min_usr = user_subdirs]
    IN IF (\A k \in DOMAIN base_dirs : base_dirs[k] # "usr")
              /\ Len(user_subdirs) > 0
       THEN [heap |-> after, err |-> "Exception", made |-> <<>>]
       ELSE [heap |-> after, err |-> "none",
             made |-> [k \in DOMAIN base_dirs |->
                          [usr |-> FALSE, dir |-> base_dirs[k]]]
                      \o [k \in DOMAIN user_subdirs |->
                             [usr |-> TRUE, dir |-> user_subdirs[k]]]]

\* FHS(profile=profile, extended=extended).create(platform)
FhsCreate(profile, extended) ==
    /\ Len(create(fhs_heap, profile, extended).heap.min_base) <= MaxDirs
    /\ Len(create(fhs_heap, profile, extended).heap.std_base) <= MaxDirs
    /\ Len(create(fhs_heap, profile, extended).heap.min_usr) <= MaxDirs
    /\ fhs_heap' = create(fhs_heap, profile, extended).heap
    /\ fhs_last' = [op |-> "create", profile |-> profile,
                    err |-> create(fhs_heap, profile, extended).err,
                    made |-> create(fhs_heap, profile, extended).made,
                    before |-> fhs_heap]
    /\ UNCHANGED <<comm_vars, fstab_vars, kc_vars, qemu_vars>>

\* BusyboxInit(fhs=FHS(profile=profile))
FhsBusyboxInit(profile) ==
    /\ fhs_last' = [op |-> "BusyboxInit", profile |-> profile,
                    err |-> IF contains(FHSProfile(fhs_heap, "STANDARD"),
                                        FHSProfile(fhs_heap, profile))
                            THEN "none" ELSE "Exception",
                    made |-> <<>>, before |-> fhs_heap]
    /\ UNCHANGED <<fhs_heap, comm_vars, fstab_vars, kc_vars, qemu_vars>>

\* the extensions: none, FHSDirs([etc], []) and FHSDirs([opt], [share])
SpecFhs ==
    Init /\ [][\/ \E profile \in {"MINIMAL", "STANDARD"} :
                    \E extended \in
                        {None,
                         Some([base_dirs |-> <<"etc">>, user_subdirs |-> <<>>]),
                         Some([base_dirs |-> <<"opt">>,
                               user_subdirs |-> <<"share">>])} :
                      FhsCreate(profile, extended)
              \/ \E profile \in {"MINIMAL", "STANDARD"} :
                    FhsBusyboxInit(profile)]_vars

\* C27: BusyboxInit is constructed without an error exactly when the lists of
\* the given profile have every base directory and every usr sub-directory
\* of the STANDARD profile.
C27_BusyboxNeedsStandard ==
    fhs_last.op = "BusyboxInit" =>
        (fhs_last.err = "none" <=>
            /\ \A k \in DOMAIN fhs_heap.std_base :
                   \E j \in DOMAIN FHSProfile(fhs_heap, fhs_last.profile).base_dirs :
                       FHSProfile(fhs_heap, fhs_last.profile).base_dirs[j]
                           = fhs_heap.std_base[k]
            /\ \A k \in DOMAIN fhs_heap.min_usr :
                   \E j \in DOMAIN FHSProfile(fhs_heap, fhs_last.profile).user_subdirs :
                       FHSProfile(fhs_heap, fhs_last.profile).user_subdirs[j]
                           = fhs_heap.min_usr[k])

\* C30: FHS.create leaves the lists of both profiles, and the shared lists
\* of minimal directories, as they were before the call.
C30_CreateLeavesProfile ==
    fhs_last.op = "create" => fhs_heap = fhs_last.before

----------------------------------------------------------------------------
(* QEMUConfig (helpers/qemu.py) and _QEMUCommonPlatform                    *)
(* (platforms/qemu.py).  A CPU order is either a name or a list of CPU     *)
(* identifiers.                                                            *)

\* the largest topology
MaxCores == 4
MaxThreads == 2
MaxSockets == 2

\* QEMUConfig.isolcpus: the union is computed and dropped
isolcpus(config, cpus) ==
    LET union == config.cpu_topology.isolated_cores
                     \cup {cpus[k] : k \in DOMAIN cpus}
    IN config

\* _QEMUCommonPlatform.nb_cpus
nb_cpus(config) == config.cpu_topology.nb_cores

\* _QEMUCommonPlatform.nb_active_cpus
nb_active_cpus(config) ==
    config.guest_logical_cores
        - Cardinality(config.cpu_topology.isolated_cores)

\* _QEMUCommonPlatform.nb_isolated_cpus
nb_isolated_cpus(config) == Cardinality(config.cpu_topology.isolated_cores)

\* _QEMUCommonPlatform.cpu_order: the error raised and the list returned;
\* "NotImplemented" stands for the constant of that name being returned
cpu_order(config, provided_order) ==
    IF ~provided_order.is_str
    THEN [err |-> "none", result |-> provided_order.ids]
    ELSE CASE provided_order.name = "even" ->
                  [err |-> "NotImplemented", result |-> <<>>]
           [] provided_order.name = "desc" ->
                  [err |-> "none",
                   result |-> [k \in 1..nb_cpus(config) |->
                                  nb_cpus(config) - k]]
           [] provided_order.name = "asc" ->
                  [err |-> "none",
                   result |-> [k \in 1..(nb_cpus(config) - 1) |-> k] \o <<0>>]
           [] OTHER -> [err |-> "NotImplementedError", result |-> <<>>]

\* QEMUConfig(cpu_topology=CPUTopology(nb_cores, nb_threads_per_core,
\* nb_sockets), ...) without max_cpus
QemuConstruct(nb_cores, nb_threads_per_core, nb_sockets) ==
    /\ qemu_config' =
           [constructed |-> TRUE,
            guest_logical_cores |->
                nb_cores * nb_sockets * nb_threads_per_core,
            cpu_topology |-> [nb_cores |-> nb_cores,
                              nb_threads_per_core |-> nb_threads_per_core,
                              nb_sockets |-> nb_sockets,
                              isolated_cores |-> {}]]
    /\ qemu_last' = [qemu_last EXCEPT !.op = "QEMUConfig", !.err = "none"]
    /\ UNCHANGED <<comm_vars, fstab_vars, kc_vars, fhs_vars>>

\* config.isolcpus(cpus)
QemuIsolcpus(cpus) ==
    /\ qemu_config.constructed
    /\ qemu_config' = isolcpus(qemu_config, cpus)
    /\ qemu_last' = [qemu_last EXCEPT !.op = "isolcpus", !.err = "none",
                                      !.cpus = cpus]
    /\ UNCHANGED <<comm_vars, fstab_vars, kc_vars, fhs_vars>>

\* platform.cpu_order(provided_order)
QemuCpuOrder(provided_order) ==
    /\ qemu_config.constructed
    /\ qemu_last' = [qemu_last EXCEPT
                         !.op = "cpu_order",
                         !.err = cpu_order(qemu_config, provided_order).err,
                         !.order = provided_order,
                         !.result =
                             cpu_order(qemu_config, provided_order).result]
    /\ UNCHANGED <<qemu_config, comm_vars, fstab_vars, kc_vars, fhs_vars>>

SpecQemu ==
    Init /\ [][\/ \E nb_cores \in 1..MaxCores :
                    \E nb_threads_per_core \in 1..MaxThreads :
                      \E nb_sockets \in 1..MaxSockets :
                        QemuConstruct(nb_cores, nb_threads_per_core, nb_sockets)
              \/ \E cpus \in {<<0>>, <<1>>, <<0, 1>>} : QemuIsolcpus(cpus)
              \/ \E name \in {"asc", "desc", "even", "random"} :
                    QemuCpuOrder([is_str |-> TRUE, name |-> name, ids |-> <<>>])
              \/ QemuCpuOrder([is_str |-> FALSE, name |-> "", ids |-> <<1, 0>>])
             ]_vars

\* C24: cpu_order("asc") returns 0, 1, ..., nb_cpus - 1 and cpu_order("desc")
\* returns nb_cpus - 1, ..., 1, 0.
C24_CpuOrderAscDesc ==
    (qemu_last.op = "cpu_order" /\ qemu_last.order.is_str) =>
        /\ qemu_last.order.name = "asc" =>
               /\ qemu_last.err = "none"
               /\ qemu_last.result =
                      [k \in 1..qemu_config.cpu_topology.nb_cores |-> k - 1]
        /\ qemu_last.order.name = "desc" =>
               /\ qemu_last.err = "none"
               /\ qemu_last.result =
                      [k \in 1..qemu_config.cpu_topology.nb_cores |->
                          qemu_config.cpu_topology.nb_cores - k]

\* C28: after isolcpus(cpus) every CPU of cpus is an isolated core of the
\* topology, nb_isolated_cpus counts the isolated cores and nb_active_cpus is
\* the number of guest logical cores less the isolated ones.
C28_IsolcpusIsolates ==
    qemu_last.op = "isolcpus" =>
        /\ \A k \in DOMAIN qemu_last.cpus :
               qemu_last.cpus[k] \in qemu_config.cpu_topology.isolated_cores
        /\ nb_isolated_cpus(qemu_config) >=
               Cardinality({qemu_last.cpus[k] : k \in DOMAIN qemu_last.cpus})
        /\ nb_active_cpus(qemu_config) =
               qemu_config.guest_logical_cores - nb_isolated_cpus(qemu_config)

\* C29: reading the cmd property leaves the stored base command of a
\* stress-ng context as the constructor set it: stress-ng alone, no
\* sub-command being given.
C29_CmdReadLeavesBase ==
    ctx_kind \in {"generic", "uart"} => ctx_cmd = <<CtxLit.stress_ng>>

====
